---- MODULE Spec2Model ----
(***************************************************************************)
(* A model of the OpenAPI slice server (src/main.py): the class            *)
(* OpenAPISpecProcessor (reference discovery, component assembly, slice    *)
(* extraction, endpoint listing) and the tool handlers that hold one       *)
(* loaded document in the global current_processor.                        *)
(*                                                                         *)
(* Data representation.  A parsed YAML/JSON value is a record              *)
(*   [kind, segs, items]                                                   *)
(* kind "obj": items is the ordered sequence of entries [k, v];            *)
(* kind "arr": items is the sequence of entries [k |-> "", v];             *)
(* kind "str": segs is the string split at "/" (so "#/a/b" is              *)
(*             <<"#","a","b">> and "" is <<"">>);                          *)
(* kind "null": any other scalar.                                          *)
(* The keys of a path item (the HTTP methods) and the method argument are  *)
(* sequences of one-character strings, because their letter case matters.  *)
(***************************************************************************)
EXTENDS Integers, Sequences, FiniteSets, TLC

----------------------------------------------------------------------------
(* Bounds of the model *)

\* number of schema names the documents draw their definitions and
\* references from
NumNames == 3

\* number of object/array layers wrapped around the reference of an
\* operation that carries it nested
MaxNest == 2

----------------------------------------------------------------------------
(* Values *)

Null == [kind |-> "null", segs |-> <<>>, items |-> <<>>]
Absent == [kind |-> "absent", segs |-> <<>>, items |-> <<>>]
Str(s) == [kind |-> "str", segs |-> s, items |-> <<>>]
KV(key, val) == [k |-> key, v |-> val]
Obj(entries) == [kind |-> "obj", segs |-> <<>>, items |-> entries]
Arr(vals) ==
  [kind |-> "arr", segs |-> <<>>,
   items |-> [i \in 1..Len(vals) |-> KV("", vals[i])]]

Text(s) == Str(<<s>>)
EmptyObj == Obj(<<>>)
EmptyArr == Arr(<<>>)

\* key in obj   (dict membership)
HasKey(obj, key) == \E i \in 1..Len(obj.items) : obj.items[i].k = key

\* obj[key]
Item(obj, key) ==
  obj.items[CHOOSE i \in 1..Len(obj.items) : obj.items[i].k = key].v

\* obj.get(key, default)
Get(obj, key, default) == IF HasKey(obj, key) THEN Item(obj, key) ELSE default

Keys(obj) == {obj.items[i].k : i \in 1..Len(obj.items)}

----------------------------------------------------------------------------
(* Letter case of method strings: str.lower() and str.upper() *)

LowerLetters ==
  <<"a","b","c","d","e","f","g","h","i","j","k","l","m",
    "n","o","p","q","r","s","t","u","v","w","x","y","z">>
UpperLetters ==
  <<"A","B","C","D","E","F","G","H","I","J","K","L","M",
    "N","O","P","Q","R","S","T","U","V","W","X","Y","Z">>

LowerChar(c) ==
  IF \E i \in 1..26 : UpperLetters[i] = c
  THEN LowerLetters[CHOOSE i \in 1..26 : UpperLetters[i] = c]
  ELSE c

UpperChar(c) ==
  IF \E i \in 1..26 : LowerLetters[i] = c
  THEN UpperLetters[CHOOSE i \in 1..26 : LowerLetters[i] = c]
  ELSE c

\* the string is taken as it is
lower_asis(s) == s

lower(s) == [i \in 1..Len(s) |-> LowerChar(s[i])]
upper(s) == [i \in 1..Len(s) |-> UpperChar(s[i])]

----------------------------------------------------------------------------
(* Reference discovery: OpenAPISpecProcessor._find_referenced_components *)

SchemaPrefix == <<"#", "components", "schemas">>

\* ref_path.startswith("#/components/schemas/"): the string has the three
\* prefix segments and at least one more segment (possibly empty) after the
\* final "/" of the prefix
startswith_schemas(ref_path) ==
  /\ Len(ref_path.segs) >= Len(SchemaPrefix) + 1
  /\ SubSeq(ref_path.segs, 1, Len(SchemaPrefix)) = SchemaPrefix

\* ref_path.split("/")[-1]
schema_name(ref_path) == ref_path.segs[Len(ref_path.segs)]

\* extract_refs without its branch for lists
RECURSIVE extract_refs_skips_lists(_)
extract_refs_skips_lists(obj) ==
  IF obj.kind = "obj"
  THEN (IF HasKey(obj, "$ref") /\ startswith_schemas(Item(obj, "$ref"))
        THEN {schema_name(Item(obj, "$ref"))}
        ELSE {})
       \cup UNION {extract_refs_skips_lists(obj.items[i].v) :
                     i \in 1..Len(obj.items)}
  ELSE {}

\* the names the nested function extract_refs adds to refs when applied to obj
RECURSIVE extract_refs(_)
extract_refs(obj) ==
  IF obj.kind = "obj"
  THEN (IF HasKey(obj, "$ref") /\ startswith_schemas(Item(obj, "$ref"))
        THEN {schema_name(Item(obj, "$ref"))}
        ELSE {})
       \cup UNION {extract_refs(obj.items[i].v) : i \in 1..Len(obj.items)}
  ELSE IF obj.kind = "arr"
  THEN UNION {extract_refs(obj.items[i].v) : i \in 1..Len(obj.items)}
  ELSE {}

\* extract_refs raises AttributeError: some object on the walk has a "$ref"
\* whose value is not a string, so that ref_path.startswith does not exist
RECURSIVE extract_refs_raises(_)
extract_refs_raises(obj) ==
  IF obj.kind = "obj"
  THEN \/ HasKey(obj, "$ref") /\ Item(obj, "$ref").kind # "str"
       \/ \E i \in 1..Len(obj.items) : extract_refs_raises(obj.items[i].v)
  ELSE IF obj.kind = "arr"
  THEN \E i \in 1..Len(obj.items) : extract_refs_raises(obj.items[i].v)
  ELSE FALSE

\* the loop body run once, without the while around it
find_nested_single_pass(schemas, refs, passes) ==
  LET current_refs == {ref \in refs : HasKey(schemas, ref)}
  IN  IF \E ref \in current_refs : extract_refs_raises(Item(schemas, ref))
      THEN [raised |-> TRUE, refs |-> {}, passes |-> passes + 1]
      ELSE [raised |-> FALSE,
            refs |-> refs \cup UNION {extract_refs(Item(schemas, ref)) :
                                        ref \in current_refs},
            passes |-> passes + 1]

\* the while loop: one call is one pass over a copy of refs; the result
\* records the number of passes made
RECURSIVE find_nested(_, _, _)
find_nested(schemas, refs, passes) ==
  LET current_refs == {ref \in refs : HasKey(schemas, ref)}
      grown == refs \cup
               UNION {extract_refs(Item(schemas, ref)) : ref \in current_refs}
      found_new_refs == Cardinality(grown) > Cardinality(refs)
  IN  IF \E ref \in current_refs : extract_refs_raises(Item(schemas, ref))
      THEN [raised |-> TRUE, refs |-> {}, passes |-> passes + 1]
      ELSE IF found_new_refs
      THEN find_nested(schemas, grown, passes + 1)
      ELSE [raised |-> FALSE, refs |-> grown, passes |-> passes + 1]

find_referenced_components(components, endpoint_spec) ==
  IF extract_refs_raises(endpoint_spec)
  THEN [raised |-> TRUE, refs |-> {}, passes |-> 0]
  ELSE find_nested(Get(components, "schemas", EmptyObj),
                   extract_refs(endpoint_spec), 0)

----------------------------------------------------------------------------
(* Documents and processors *)

\* A specification document: the top-level mapping.  A field that the
\* mapping does not have is Absent.  paths is a mapping from path strings to
\* path items; a path item is a mapping whose keys are character sequences.
Doc(openapi, info, servers, paths, components) ==
  [openapi |-> openapi, info |-> info, servers |-> servers,
   paths |-> paths, components |-> components]

\* spec_data.get(field, default)
SpecGet(spec, field, default) ==
  IF spec[field] = Absent THEN default ELSE spec[field]

NoSpec == Doc(Absent, Absent, Absent, Absent, Absent)

\* current_processor = None
None == [loaded |-> FALSE, spec |-> NoSpec]

\* OpenAPISpecProcessor.__init__
OpenAPISpecProcessor(spec_data) == [loaded |-> TRUE, spec |-> spec_data]
components_of(self) == SpecGet(self.spec, "components", EmptyObj)
paths_of(self) == SpecGet(self.spec, "paths", EmptyObj)

----------------------------------------------------------------------------
(* Component assembly: OpenAPISpecProcessor._extract_components *)

ComponentTypes ==
  <<"responses", "parameters", "examples", "requestBodies", "headers",
    "securitySchemes", "links", "callbacks">>

\* The components mapping of a slice: has_schemas says whether the key
\* "schemas" is present, schemas maps the retained names to their
\* definitions, others maps the copied categories to their content.
NoComponents == [has_schemas |-> FALSE, schemas |-> <<>>, others |-> <<>>]

extract_components(self, schema_names) ==
  LET comps == components_of(self)
      has == schema_names # {} /\ HasKey(comps, "schemas")
      kept == IF has
              THEN {name \in schema_names : HasKey(Item(comps, "schemas"), name)}
              ELSE {}
      copied == {ComponentTypes[i] : i \in
                   {j \in 1..Len(ComponentTypes) : HasKey(comps, ComponentTypes[j])}}
  IN  [has_schemas |-> has,
       schemas |-> [name \in kept |-> Item(Item(comps, "schemas"), name)],
       others |-> [comp_type \in copied |-> Item(comps, comp_type)]]

----------------------------------------------------------------------------
(* Slice extraction: OpenAPISpecProcessor.extract_endpoint_slice *)

NoFound == [raised |-> FALSE, refs |-> {}, passes |-> 0]
NoSlice ==
  [openapi |-> Absent, info |-> Absent, servers |-> Absent,
   paths |-> [path |-> "", method |-> <<>>, operation |-> Absent],
   components |-> NoComponents]

\* a check that also turns away the keys of a path item that are no methods
endpoint_missing_strict(self, path, method) ==
  \/ ~HasKey(paths_of(self), path)
  \/ ~HasKey(Item(paths_of(self), path), method)
  \/ method \in {<<"p","a","r","a","m","e","t","e","r","s">>,
                  <<"s","u","m","m","a","r","y">>}

\* path not in self._paths or method not in self._paths[path]
endpoint_missing(self, path, method) ==
  \/ ~HasKey(paths_of(self), path)
  \/ ~HasKey(Item(paths_of(self), path), method)

\* outcome "ValueError" is the raise of line 26, whose message names
\* method.upper() and path; outcome "AttributeError" is the exception that
\* escapes from extract_refs; found is the value of referenced_schemas
\* together with the number of passes its computation made
extract_endpoint_slice(self, path, method0) ==
  LET method == lower(method0)
  IN  IF endpoint_missing(self, path, method)
      THEN [outcome |-> "ValueError",
            message |-> [method |-> upper(method), path |-> path],
            found |-> NoFound, slice |-> NoSlice]
      ELSE
        LET operation == Item(Item(paths_of(self), path), method)
            found == find_referenced_components(components_of(self), operation)
        IN  IF found.raised
            THEN [outcome |-> "AttributeError",
                  message |-> [method |-> <<>>, path |-> ""],
                  found |-> found, slice |-> NoSlice]
            ELSE [outcome |-> "ok",
                  message |-> [method |-> <<>>, path |-> ""],
                  found |-> found,
                  slice |->
                    [openapi |-> SpecGet(self.spec, "openapi", Str(<<"3.0.0">>)),
                     info |-> SpecGet(self.spec, "info", EmptyObj),
                     servers |-> SpecGet(self.spec, "servers", EmptyArr),
                     paths |-> [path |-> path, method |-> method,
                                operation |-> operation],
                     components |->
                       IF found.refs # {}
                       THEN extract_components(self, found.refs)
                       ELSE NoComponents]]

----------------------------------------------------------------------------
(* Endpoint listing: OpenAPISpecProcessor.list_endpoints *)

kw_parameters == <<"p","a","r","a","m","e","t","e","r","s">>
kw_summary == <<"s","u","m","m","a","r","y">>
kw_description == <<"d","e","s","c","r","i","p","t","i","o","n">>

NonMethodKeys == {kw_parameters, kw_summary, kw_description}

RECURSIVE Flatten(_)
Flatten(seqs) ==
  IF seqs = <<>> THEN <<>> ELSE Head(seqs) \o Flatten(Tail(seqs))

\* the records appended for one path, in the order of its keys
path_endpoints(path, methods) ==
  LET listed == SelectSeq(methods.items, LAMBDA e : e.k \notin NonMethodKeys)
  IN  [i \in 1..Len(listed) |->
         [path |-> path,
          method |-> upper(listed[i].k),
          summary |-> Get(listed[i].v, "summary", Text("")),
          operationId |-> Get(listed[i].v, "operationId", Text(""))]]

\* methods[method].get raises AttributeError when the value under a listed
\* key is not a mapping
list_raises(self) ==
  \E i \in 1..Len(paths_of(self).items) :
    \E j \in 1..Len(paths_of(self).items[i].v.items) :
      LET e == paths_of(self).items[i].v.items[j]
      IN  e.k \notin NonMethodKeys /\ e.v.kind # "obj"

list_endpoints(self) ==
  IF list_raises(self)
  THEN [raised |-> TRUE, endpoints |-> <<>>]
  ELSE [raised |-> FALSE,
        endpoints |->
          Flatten([i \in 1..Len(paths_of(self).items) |->
                     path_endpoints(paths_of(self).items[i].k,
                                    paths_of(self).items[i].v)])]

----------------------------------------------------------------------------
(* The state of the server *)

VARIABLES
  current_processor,  \* the global of line 137: None or the loaded processor
  last                \* the last tool call: its name, arguments and result

vars == <<current_processor, last>>

m_get == <<"g","e","t">>
m_GET == <<"G","E","T">>
m_Get == <<"G","e","t">>
m_post == <<"p","o","s","t">>
m_servers == <<"s","e","r","v","e","r","s">>
m_PARAMETERS == <<"P","A","R","A","M","E","T","E","R","S">>

f_yaml == <<"y","a","m","l">>
f_json == <<"j","s","o","n">>
f_JSON == <<"J","S","O","N">>
f_xml == <<"x","m","l">>

----------------------------------------------------------------------------
(* Tool handlers that read the held document *)

\* bool(value) of a parsed value
Truthy(value) ==
  \/ value.kind \in {"obj", "arr"} /\ value.items # <<>>
  \/ value.kind = "str" /\ value.segs # <<"">>

\* the line the tool list_endpoints writes for one endpoint: the summary
\* and the operationId are written only when they are truthy
endpoint_line(endpoint) ==
  [method |-> endpoint.method, path |-> endpoint.path,
   summary |-> IF Truthy(endpoint.summary) THEN endpoint.summary ELSE Text(""),
   operationId |-> IF Truthy(endpoint.operationId)
                   THEN endpoint.operationId ELSE Text("")]

list_endpoints_tool(processor) ==
  IF processor = None
  THEN [kind |-> "NotLoaded", lines |-> <<>>]
  ELSE LET listing == list_endpoints(processor)
       IN  IF listing.raised
           THEN [kind |-> "InternalError", lines |-> <<>>]
           ELSE IF listing.endpoints = <<>>
           THEN [kind |-> "NoEndpoints", lines |-> <<>>]
           ELSE [kind |-> "ok",
                 lines |-> [i \in 1..Len(listing.endpoints) |->
                              endpoint_line(listing.endpoints[i])]]

extract_endpoint_slice_tool(processor, path, method, output_format) ==
  LET none == [method |-> <<>>, path |-> ""]
  IN  IF processor = None
      THEN [kind |-> "NotLoaded", message |-> none, format |-> <<>>,
            found |-> NoFound, slice |-> NoSlice]
      ELSE IF lower(output_format) \notin {f_yaml, f_json}
      THEN [kind |-> "InvalidFormat", message |-> none, format |-> <<>>,
            found |-> NoFound, slice |-> NoSlice]
      ELSE LET r == extract_endpoint_slice(processor, path, method)
           IN  [kind |-> CASE r.outcome = "ok" -> "ok"
                           [] r.outcome = "ValueError" -> "NotFound"
                           [] OTHER -> "InternalError",
                message |-> r.message,
                format |-> IF r.outcome = "ok" THEN lower(output_format) ELSE <<>>,
                found |-> r.found,
                slice |-> r.slice]

get_server_status_tool(processor) ==
  IF processor = None
  THEN [kind |-> "NotLoaded", count |-> 0]
  ELSE LET listing == list_endpoints(processor)
       IN  IF listing.raised
           THEN [kind |-> "InternalError", count |-> 0]
           ELSE [kind |-> "ok", count |-> Len(listing.endpoints)]

PathArgs == {"/x", "/nope"}
MethodArgs == {m_get, m_GET, m_Get, m_post, kw_parameters, m_PARAMETERS,
               m_servers}
FormatArgs == {f_yaml, f_JSON, f_xml}

ListEndpoints ==
  /\ last' = [op |-> "list_endpoints",
              result |-> list_endpoints_tool(current_processor)]
  /\ UNCHANGED current_processor

ExtractEndpointSliceWith(paths, methods, formats) ==
  \E path \in paths, method \in methods, output_format \in formats :
    /\ last' = [op |-> "extract_endpoint_slice",
                path |-> path, method |-> method,
                output_format |-> output_format,
                result |-> extract_endpoint_slice_tool(current_processor,
                                                       path, method,
                                                       output_format)]
    /\ UNCHANGED current_processor

ExtractEndpointSlice == ExtractEndpointSliceWith(PathArgs, MethodArgs, FormatArgs)

\* calls that leave output_format at its default
ExtractEndpointSliceDefault ==
  ExtractEndpointSliceWith(PathArgs, {m_get, m_GET, m_post}, {f_yaml})

GetServerStatus ==
  /\ last' = [op |-> "get_server_status",
              result |-> get_server_status_tool(current_processor)]
  /\ UNCHANGED current_processor

----------------------------------------------------------------------------
(* Documents for the processor: one operation over a graph of schemas *)

NameList == <<"A", "B", "C", "D", "E">>
Names == {NameList[i] : i \in 1..NumNames}
FirstName == NameList[1]
LastName == NameList[NumNames]

PlainRef(name) == Str(SchemaPrefix \o <<name>>)
\* a pointer below a schema, such as "#/components/schemas/A/properties/B"
DeepRef(name, property) == Str(SchemaPrefix \o <<name, "properties", property>>)
ResponseRef(name) == Str(<<"#", "components", "responses", name>>)

NoRefLeaf == Obj(<<KV("type", Text("string"))>>)
RefLeaf(ref) == Obj(<<KV("$ref", ref)>>)
\* a properties mapping with a property that is itself named "$ref"
NonStringRefLeaf == Obj(<<KV("$ref", NoRefLeaf)>>)

\* depth layers of objects and arrays around a leaf
RECURSIVE Wrap(_, _)
Wrap(leaf, depth) ==
  IF depth = 0 THEN leaf
  ELSE IF depth % 2 = 1
  THEN Obj(<<KV("schema", Wrap(leaf, depth - 1))>>)
  ELSE Arr(<<Null, Wrap(leaf, depth - 1)>>)

SchemaLeaves == {NoRefLeaf} \cup {RefLeaf(PlainRef(name)) : name \in Names}

SchemaDef(leaf) ==
  Obj(<<KV("type", Text("object")),
        KV("allOf", Arr(<<Obj(<<KV("properties", Obj(<<KV("p", leaf)>>))>>)>>))>>)

\* for every name either no definition (Absent) or a definition
SchemaMaps == [Names -> {Absent} \cup {SchemaDef(leaf) : leaf \in SchemaLeaves}]

SchemasObj(schema_map) ==
  LET defined == SelectSeq(SubSeq(NameList, 1, NumNames),
                           LAMBDA name : schema_map[name] # Absent)
  IN  Obj([i \in 1..Len(defined) |-> KV(defined[i], schema_map[defined[i]])])

\* categories other than schemas: a response that refers to the last schema
\* name, and a parameter
OtherCategories ==
  <<KV("responses",
       Obj(<<KV("R", Obj(<<KV("content", RefLeaf(PlainRef(LastName)))>>))>>)),
    KV("parameters", Obj(<<KV("P", NoRefLeaf)>>))>>

ComponentsOf(schema_map, with_others) ==
  LET schemas == SchemasObj(schema_map)
      entries == (IF schemas.items = <<>> THEN <<>> ELSE <<KV("schemas", schemas)>>)
                 \o (IF with_others THEN OtherCategories ELSE <<>>)
  IN  IF entries = <<>> THEN Absent ELSE Obj(entries)

OperationLeaves ==
  SchemaLeaves \cup
  {RefLeaf(DeepRef(FirstName, LastName)), RefLeaf(ResponseRef("R")),
   NonStringRefLeaf}

Operation(leaf, depth) ==
  Obj(<<KV("operationId", Text("op")),
        KV("parameters", Arr(<<NoRefLeaf>>)),
        KV("responses", Obj(<<KV("200", Wrap(leaf, depth))>>))>>)

Operations ==
  {Operation(leaf, depth) : leaf \in OperationLeaves, depth \in {0, MaxNest}}

Info == Obj(<<KV("title", Text("T")), KV("version", Text("1"))>>)

GraphDocs ==
  {Doc(Text("3.1.0"), Info, Absent,
       Obj(<<KV("/x", Obj(<<KV(m_get, operation)>>))>>),
       ComponentsOf(schema_map, with_others)) :
     operation \in Operations, schema_map \in SchemaMaps,
     with_others \in BOOLEAN}

\* a processor constructed over any of the documents
ProcInit ==
  /\ current_processor \in {OpenAPISpecProcessor(spec_data) : spec_data \in GraphDocs}
  /\ last = [op |-> "none"]

ProcNext == ExtractEndpointSliceDefault \/ ListEndpoints \/ GetServerStatus

ProcSpec == ProcInit /\ [][ProcNext]_vars

----------------------------------------------------------------------------
(* Documents for the server: the layouts of paths and of info *)

Op1 ==
  Obj(<<KV("summary", Text("first")), KV("operationId", Text("op1")),
        KV("responses", Wrap(RefLeaf(PlainRef("A")), 1))>>)
Op2 == Obj(<<KV("responses", EmptyObj)>>)
PathParameters ==
  Arr(<<Obj(<<KV("name", Text("id")), KV("schema", RefLeaf(PlainRef("B")))>>)>>)

PathLayouts ==
  {Obj(<<KV("/x", Obj(<<KV(m_get, Op1)>>))>>),
   Obj(<<KV("/x", Obj(<<KV(kw_parameters, PathParameters), KV(m_get, Op1),
                        KV(m_post, Op2)>>))>>),
   Obj(<<KV("/x", Obj(<<KV(m_GET, Op1)>>))>>),
   Obj(<<KV("/x", Obj(<<KV(m_servers, EmptyArr), KV(m_get, Op1)>>))>>),
   Obj(<<KV("/y", Obj(<<KV(m_post, Op2)>>)),
         KV("/x", Obj(<<KV(kw_summary, Text("s")), KV(m_get, Op1)>>))>>),
   EmptyObj}

\* info is absent, a mapping, or a plain string
InfoLayouts == {Absent, Info, Text("My API")}

ServerComponents ==
  Obj(<<KV("schemas", Obj(<<KV("A", SchemaDef(RefLeaf(PlainRef("B")))),
                            KV("B", SchemaDef(NoRefLeaf))>>)),
        KV("securitySchemes", Obj(<<KV("key", NoRefLeaf)>>))>>)

ServerDocs ==
  {Doc(Absent, info, Absent, paths, components) :
     info \in InfoLayouts, paths \in PathLayouts,
     components \in {Absent, ServerComponents}}

----------------------------------------------------------------------------
(* Loading: the tools load_openapi_spec and load_openapi_spec_from_url *)

x_yaml == <<".","y","a","m","l">>
x_YML == <<".","Y","M","L">>
x_yml == <<".","y","m","l">>
x_json == <<".","j","s","o","n">>
x_txt == <<".","t","x","t">>
x_none == <<>>

\* What a parser returns: a mapping (spec is the document) or something
\* that is not a mapping.
ParsedValues ==
  {[is_dict |-> FALSE, spec |-> NoSpec], [is_dict |-> TRUE, spec |-> NoSpec]}
  \cup {[is_dict |-> TRUE, spec |-> spec_data] : spec_data \in ServerDocs}

\* A text is JSON (which YAML reads as well), YAML that is not JSON, or
\* neither; value is what the text denotes.
Texts ==
  {[syntax |-> "garbage", value |-> [is_dict |-> FALSE, spec |-> NoSpec]]}
  \cup {[syntax |-> syntax, value |-> value] :
          syntax \in {"json", "yaml"}, value \in ParsedValues}

yaml_fails(text) == text.syntax = "garbage"
json_fails(text) == text.syntax # "json"

Files ==
  {[exists |-> FALSE, suffix |-> x_yaml,
    text |-> [syntax |-> "garbage", value |-> [is_dict |-> FALSE, spec |-> NoSpec]]]}
  \cup {[exists |-> TRUE, suffix |-> suffix, text |-> text] :
          suffix \in {x_yaml, x_YML, x_json, x_txt}, text \in Texts}

NoSummary == [title |-> Absent, version |-> Absent, count |-> 0]

\* lines 158-167 and 281-290: the check of the parsed value, the assignment
\* to current_processor and the computation of the status message, whose
\* .get on info raises AttributeError when info is not a mapping
install(processor, value, error_kind) ==
  IF ~value.is_dict \/ value.spec.paths = Absent
  THEN [processor |-> processor,
        result |-> [kind |-> "InvalidSpec", summary |-> NoSummary]]
  ELSE LET info == SpecGet(value.spec, "info", EmptyObj)
       IN  IF info.kind # "obj"
           THEN [processor |-> OpenAPISpecProcessor(value.spec),
                 result |-> [kind |-> error_kind, summary |-> NoSummary]]
           ELSE [processor |-> OpenAPISpecProcessor(value.spec),
                 result |->
                   [kind |-> "ok",
                    summary |->
                      [title |-> Get(info, "title", Text("Unknown")),
                       version |-> Get(info, "version", Text("Unknown")),
                       count |-> Len(value.spec.paths.items)]]]

load_openapi_spec(processor, file) ==
  LET fail(kind) == [processor |-> processor,
                     result |-> [kind |-> kind, summary |-> NoSummary]]
  IN  IF ~file.exists THEN fail("FileNotFound")
      ELSE IF lower(file.suffix) \in {x_yaml, x_yml}
      THEN IF yaml_fails(file.text) THEN fail("ParseError")
           ELSE install(processor, file.text.value, "LoadError")
      ELSE IF lower(file.suffix) = x_json
      THEN IF json_fails(file.text) THEN fail("ParseError")
           ELSE install(processor, file.text.value, "LoadError")
      ELSE fail("BadExtension")

\* A URL: its scheme, whether it has a network location, and the extension
\* it ends with.  A fetch: the exception httpx raises, or a response with
\* its content type and its text.
Urls ==
  {[scheme |-> "", netloc |-> FALSE, ending |-> x_none],
   [scheme |-> "ftp", netloc |-> TRUE, ending |-> x_yaml]}
  \cup {[scheme |-> "https", netloc |-> TRUE, ending |-> ending] :
          ending \in {x_none, x_json, x_YML}}

ContentTypes == {"application/json", "text/yaml", "text/plain"}

Fetches ==
  {[raised |-> raised, content_type |-> "text/plain",
    text |-> [syntax |-> "garbage", value |-> [is_dict |-> FALSE, spec |-> NoSpec]]] :
     raised \in {"TimeoutException", "HTTPStatusError", "RequestError"}}
  \cup {[raised |-> "", content_type |-> content_type, text |-> text] :
          content_type \in ContentTypes, text \in Texts}

load_openapi_spec_from_url(processor, url, fetch) ==
  LET fail(kind) == [processor |-> processor,
                     result |-> [kind |-> kind, summary |-> NoSummary]]
      ending == lower(url.ending)
  IN  IF url.scheme = "" \/ ~url.netloc THEN fail("InvalidUrl")
      ELSE IF url.scheme \notin {"http", "https"} THEN fail("UnsupportedScheme")
      ELSE IF fetch.raised = "TimeoutException" THEN fail("Timeout")
      ELSE IF fetch.raised = "HTTPStatusError" THEN fail("HttpError")
      ELSE IF fetch.raised = "RequestError" THEN fail("NetworkError")
      ELSE IF fetch.content_type = "application/json" \/ ending = x_json
      THEN IF json_fails(fetch.text) THEN fail("ParseError")
           ELSE install(processor, fetch.text.value, "LoadError")
      ELSE IF fetch.content_type = "text/yaml" \/ ending \in {x_yaml, x_yml}
      THEN IF yaml_fails(fetch.text) THEN fail("ParseError")
           ELSE install(processor, fetch.text.value, "LoadError")
      ELSE IF yaml_fails(fetch.text)
      THEN IF json_fails(fetch.text) THEN fail("Unparseable")
           ELSE install(processor, fetch.text.value, "LoadError")
      ELSE install(processor, fetch.text.value, "LoadError")

LoadOpenapiSpec ==
  \E file \in Files :
    LET r == load_openapi_spec(current_processor, file)
    IN  /\ current_processor' = r.processor
        /\ last' = [op |-> "load_openapi_spec", result |-> r.result]

LoadOpenapiSpecFromUrl ==
  \E url \in Urls, fetch \in Fetches :
    LET r == load_openapi_spec_from_url(current_processor, url, fetch)
    IN  /\ current_processor' = r.processor
        /\ last' = [op |-> "load_openapi_spec_from_url", result |-> r.result]

----------------------------------------------------------------------------
(* The server *)

Init ==
  /\ current_processor = None
  /\ last = [op |-> "none"]

Next ==
  \/ LoadOpenapiSpec
  \/ LoadOpenapiSpecFromUrl
  \/ ListEndpoints
  \/ ExtractEndpointSlice
  \/ GetServerStatus

Spec == Init /\ [][Next]_vars

----------------------------------------------------------------------------
(* Notions the properties are stated with *)

\* the value of every string-valued "$ref" that occurs anywhere in a value
RECURSIVE RefValues(_)
RefValues(value) ==
  IF value.kind \in {"obj", "arr"}
  THEN (IF value.kind = "obj" /\ HasKey(value, "$ref")
           /\ Item(value, "$ref").kind = "str"
        THEN {Item(value, "$ref").segs}
        ELSE {})
       \cup UNION {RefValues(value.items[i].v) : i \in 1..Len(value.items)}
  ELSE {}

\* the names N such that a "$ref" equal to "#/components/schemas/N" occurs
\* in the value
Referenced(value) ==
  {ref[4] : ref \in {r \in RefValues(value) : r = SchemaPrefix \o <<r[Len(r)]>>}}

\* the least set of names that contains start and the names referenced by
\* the definition of each of its members
RECURSIVE Closure(_, _)
Closure(schemas, start) ==
  LET step == start \cup UNION {Referenced(Item(schemas, name)) :
                                  name \in {n \in start : HasKey(schemas, n)}}
  IN  IF step = start THEN start ELSE Closure(schemas, step)

SourceSchemas == Get(components_of(current_processor), "schemas", EmptyObj)

\* the names reachable from an operation of the held document
Reachable(operation) == Closure(SourceSchemas, Referenced(operation))

\* the last call was extract_endpoint_slice and it returned a slice
Extracted == last.op = "extract_endpoint_slice" /\ last.result.kind = "ok"
\* the operation the last call extracted, as found in the slice
ExtractedOperation == last.result.slice.paths.operation
\* the components of the slice the last call returned
Out == last.result.slice.components

----------------------------------------------------------------------------
(* Properties *)

\* C1 - Closure completeness: when extract_endpoint_slice has run reference
\* discovery on an operation of the held document, the name set it returned
\* contains every name reachable from the operation through
\* "#/components/schemas/<Name>" references, followed to any depth through
\* the definitions of the names already reached.
C1_ClosureCompleteness ==
  Extracted => Reachable(ExtractedOperation) \subseteq last.result.found.refs

\* a name is reached only through two definitions, from a reference that is
\* nested in objects and arrays of the operation
C1_Witness ==
  /\ Extracted
  /\ \E name \in Reachable(ExtractedOperation) :
       /\ name \notin Referenced(ExtractedOperation)
       /\ \A first \in Referenced(ExtractedOperation) :
            HasKey(SourceSchemas, first)
            => name \notin Referenced(Item(SourceSchemas, first))
  /\ ExtractedOperation = Operation(RefLeaf(PlainRef(FirstName)), MaxNest)

\* C2 - Closure minimality: every key of components.schemas of a returned
\* slice is a name reachable from the extracted operation, and is defined in
\* the source.
C2_ClosureMinimality ==
  Extracted =>
    /\ DOMAIN Out.schemas \subseteq Reachable(ExtractedOperation)
    /\ DOMAIN Out.schemas \subseteq Keys(SourceSchemas)

\* C3 - Every category other than schemas that the source has is in the
\* components of a returned slice, entire, and every one the source does not
\* have is not.
C3_OtherCategoriesCarried ==
  Extracted =>
    \A i \in 1..Len(ComponentTypes) :
      LET comp_type == ComponentTypes[i]
      IN  IF HasKey(components_of(current_processor), comp_type)
          THEN /\ comp_type \in DOMAIN Out.others
               /\ Out.others[comp_type] =
                    Item(components_of(current_processor), comp_type)
          ELSE comp_type \notin DOMAIN Out.others

\* every "$ref" value that occurs in a returned slice
SliceRefValues ==
  RefValues(ExtractedOperation)
  \cup UNION {RefValues(Out.schemas[name]) : name \in DOMAIN Out.schemas}
  \cup UNION {RefValues(Out.others[comp_type]) : comp_type \in DOMAIN Out.others}

\* C4 - Self-containment: every reference "#/components/schemas/N" that
\* occurs in a returned slice and whose N is defined in the source has N
\* among the keys of components.schemas of the slice.
C4_SelfContained ==
  Extracted =>
    \A ref \in SliceRefValues :
      (ref = SchemaPrefix \o <<ref[Len(ref)]>> /\ HasKey(SourceSchemas, ref[4]))
      => ref[4] \in DOMAIN Out.schemas

LoadOps == {"load_openapi_spec", "load_openapi_spec_from_url"}

\* C5 - Atomic loading: a load that reports an error leaves the held
\* document as it was; a load that reports success leaves a document held.
C5_AtomicLoad ==
  [][last'.op \in LoadOps =>
       IF last'.result.kind = "ok"
       THEN current_processor'.loaded
       ELSE current_processor' = current_processor]_vars

\* the request of the last call named no endpoint of the held document
EndpointAbsent ==
  LET paths == paths_of(current_processor)
  IN  IF last.path \in Keys(paths)
      THEN lower(last.method) \notin Keys(Item(paths, last.path))
      ELSE TRUE

C6_NotFoundExactly ==
  (/\ last.op = "extract_endpoint_slice"
   /\ current_processor.loaded
   /\ lower(last.output_format) \in {f_yaml, f_json})
  => /\ last.result.kind = "NotFound" <=> EndpointAbsent
     /\ last.result.kind = "NotFound"
        => /\ last.result.message.path = last.path
           /\ lower(last.result.message.method) = lower(last.method)

C6_ReadsKeepDocument ==
  last'.op \in {"extract_endpoint_slice", "list_endpoints"}
  => current_processor' = current_processor

\* C6 - With a document held, extract_endpoint_slice reports NotFound,
\* naming the method and the path, exactly when the path is not a key of
\* paths or the lower-cased method is not a key under it; and neither
\* extract_endpoint_slice nor list_endpoints changes the held document.
C6_NotFound == [] C6_NotFoundExactly /\ [][C6_ReadsKeepDocument]_vars

\* the path is there, the method is not
C6_Witness ==
  /\ last.op = "extract_endpoint_slice"
  /\ current_processor.loaded
  /\ last.result.kind = "NotFound"
  /\ last.path \in Keys(paths_of(current_processor))
  /\ last.method = m_post

\* the names that lie on a cycle of references and are reachable
CycleNames(operation) ==
  {name \in Reachable(operation) :
     /\ HasKey(SourceSchemas, name)
     /\ name \in Closure(SourceSchemas, Referenced(Item(SourceSchemas, name)))}

\* C7 - Cycle termination: reference discovery ends after at most
\* |components.schemas| + 1 passes of its while loop, whatever cycles and
\* dangling references the definitions have, and its result contains every
\* reachable name that lies on a cycle.
C7_CycleTermination ==
  /\ (last.op = "extract_endpoint_slice"
      /\ last.result.kind \in {"ok", "InternalError"})
     => last.result.found.passes <= Len(SourceSchemas.items) + 1
  /\ Extracted => CycleNames(ExtractedOperation) \subseteq last.result.found.refs

\* two names that refer to each other, entered from a third: the loop
\* visits both again in its last pass and stops
C7_Witness ==
  /\ Extracted
  /\ \E a, b \in CycleNames(ExtractedOperation) :
       /\ a # b
       /\ b \in Referenced(Item(SourceSchemas, a))
       /\ a \in Referenced(Item(SourceSchemas, b))
       /\ a \notin Referenced(ExtractedOperation)
       /\ b \notin Referenced(ExtractedOperation)
  /\ last.result.found.passes = 3

\* two method strings that differ only in the case of their letters
DifferOnlyInCase(m1, m2) ==
  /\ Len(m1) = Len(m2)
  /\ \A i \in 1..Len(m1) :
       \/ m1[i] = m2[i]
       \/ \E j \in 1..26 : {m1[i], m2[i]} = {LowerLetters[j], UpperLetters[j]}

\* C8 - Case-insensitive method match: for the held document and the path
\* of the last extract_endpoint_slice call, every method string that differs
\* from the one of the call only in letter case has the same outcome.
C8_CaseInsensitiveMethod ==
  last.op = "extract_endpoint_slice" =>
    \A method \in MethodArgs :
      DifferOnlyInCase(method, last.method)
      => extract_endpoint_slice_tool(current_processor, last.path, method,
                                     last.output_format) = last.result

\* "GET" returned the slice of the operation under "get"
C8_Witness ==
  /\ Extracted
  /\ last.method = m_GET
  /\ last.result.slice.paths.method = m_get

\* the records the listing is to have for the entries of a path item
RECURSIVE ExpectedOfPath(_, _)
ExpectedOfPath(path, entries) ==
  IF entries = <<>> THEN <<>>
  ELSE (IF Head(entries).k \in {kw_parameters, kw_summary, kw_description}
        THEN <<>>
        ELSE <<[method |-> upper(Head(entries).k), path |-> path,
                summary |-> Get(Head(entries).v, "summary", Text("")),
                operationId |-> Get(Head(entries).v, "operationId", Text(""))]>>)
       \o ExpectedOfPath(path, Tail(entries))

RECURSIVE ExpectedListing(_)
ExpectedListing(path_entries) ==
  IF path_entries = <<>> THEN <<>>
  ELSE ExpectedOfPath(Head(path_entries).k, Head(path_entries).v.items)
       \o ExpectedListing(Tail(path_entries))

\* C9 - list_endpoints writes one record (path, upper-cased key, summary or
\* "", operationId or "") for every key of every path other than parameters,
\* summary and description, in the order of the document, and reports that
\* no document is loaded when none is.
C9_Listing ==
  last.op = "list_endpoints" =>
    IF current_processor.loaded
    THEN /\ last.result.kind \in {"ok", "NoEndpoints"}
         /\ last.result.lines = ExpectedListing(paths_of(current_processor).items)
    ELSE last.result.kind = "NotLoaded"

\* C10 - Listing and extraction agree: every listed (path, method) is found
\* by extract_endpoint_slice, and every (path, method) for which it returns
\* a slice is listed.
C10_ListingAgreesWithExtraction ==
  /\ (last.op = "list_endpoints" /\ last.result.kind = "ok")
     => \A i \in 1..Len(last.result.lines) :
          extract_endpoint_slice(current_processor, last.result.lines[i].path,
                        last.result.lines[i].method).outcome # "ValueError"
  /\ Extracted
     => /\ ~list_endpoints(current_processor).raised
        /\ \E i \in 1..Len(list_endpoints(current_processor).endpoints) :
             LET endpoint == list_endpoints(current_processor).endpoints[i]
             IN  /\ endpoint.path = last.path
                 /\ endpoint.method = upper(last.method)

====
